---- MODULE Spec2Model ----
(***************************************************************************)
(* A model of influxdb-mcp: the InfluxDBManager of influxdb_client.py      *)
(* (connection lifecycle, query execution and result flattening, schema    *)
(* discovery, query construction) and the process-wide manager of          *)
(* server.py (get_influxdb_manager, the probing tool and route, shutdown). *)
(*                                                                         *)
(* Three specifications share the variables:                               *)
(*   Spec       one InfluxDBManager driven through its public methods,     *)
(*              next to the server's tools run one at a time;              *)
(*   SpecConc   several tool invocations inside get_influxdb_manager at    *)
(*              once, then main()'s shutdown;                              *)
(*   SpecQuery  the side-effect free part: flattening, schema discovery    *)
(*              and the query builders applied to bounded inputs.          *)
(***************************************************************************)
EXTENDS Integers, Sequences, FiniteSets, TLC

VARIABLES
    client,            \* client[m]: InfluxDBManager._client of manager m (a handle, or NoHandle)
    query_api,         \* query_api[m]: the handle InfluxDBManager._query_api is bound to
    owner,             \* owner[h]: the manager whose connect() opened handle h
    closes,            \* closes[h]: how many times close() was called on handle h
    influxdb_manager,  \* server.py's global manager (NoManager: None)
    pc,                \* pc[t]: where invocation t stands inside get_influxdb_manager
    ret,               \* ret[t]: the manager get_influxdb_manager returned to t
    stopped,           \* main()'s finally block has run
    last,              \* the last completed call of Spec and what it did
    call               \* the last call of SpecQuery: its inputs and its result

vars == <<client, query_api, owner, closes, influxdb_manager, pc, ret, stopped, last, call>>

(***************************************************************************)
(* Bounds.                                                                 *)
(***************************************************************************)
MaxHandles == 3      \* client handles opened in one run
NThreads == 2        \* concurrent tool invocations
MaxRows == 3         \* rows in one engine result, over all its tables
MaxTables == 2       \* tables in one engine result
MaxFields == 2       \* entries of a fields list
MaxData == 3         \* stored rows a recent-data query runs over

NoHandle == 0
NoManager == 0
None == "<None>"

(***************************************************************************)
(* Python values.  Strings whose characters the code inspects (column      *)
(* names, record keys) are sequences of characters; opaque strings are     *)
(* TLA+ strings.                                                           *)
(***************************************************************************)
K_time == <<"t", "i", "m", "e">>
K_measurement == <<"m", "e", "a", "s", "u", "r", "e", "m", "e", "n", "t">>
K_field == <<"f", "i", "e", "l", "d">>
K_value == <<"v", "a", "l", "u", "e">>
K_result == <<"r", "e", "s", "u", "l", "t">>
K_table == <<"t", "a", "b", "l", "e">>
K_region == <<"r", "e", "g", "i", "o", "n">>

Underscore(k) == <<"_">> \o k

\* str.startswith for a one-character prefix
startswith(key, ch) == Len(key) >= 1 /\ key[1] = ch

\* bool(v) for the values that occur: None and the empty string are falsy
Truthy(v) == v # None /\ v # ""

\* dict.get(key, default)
DictGet(d, key, default) == IF key \in DOMAIN d THEN d[key] ELSE default

\* the strings that get sorted, in Python's str order
StrOrder == <<"", "cpu", "mem", "us">>

StrRank(s) == CHOOSE i \in 1..Len(StrOrder) : StrOrder[i] = s

RECURSIVE sorted(_)
\* sorted(list(S)) of a set of strings
sorted(S) ==
    IF S = {} THEN <<>>
    ELSE LET lo == CHOOSE x \in S : \A y \in S : StrRank(x) <= StrRank(y)
         IN  <<lo>> \o sorted(S \ {lo})

Range(s) == {s[i] : i \in 1..Len(s)}

(***************************************************************************)
(* The engine's answer to a query: a sequence of tables, each a sequence   *)
(* of rows; a row is FluxRecord.values, a mapping from column name to      *)
(* value.  Every row carries the four standard columns (None where the     *)
(* engine reports none) and the engine's result and table columns.         *)
(***************************************************************************)
RowValues == {"", "cpu", "mem"}

NoTags == <<>>
ShadowTag == (K_region :> "us") @@ (K_time :> "us")
TagSets == {NoTags, ShadowTag}

Row(v, tags) ==
    (Underscore(K_time) :> "T1") @@ (Underscore(K_measurement) :> "temp")
    @@ (Underscore(K_field) :> "avg") @@ (Underscore(K_value) :> v)
    @@ (K_result :> "_result") @@ (K_table :> "0") @@ tags

Rows == {Row(v, tags) : v \in RowValues, tags \in TagSets}

\* a row of a schema query's answer: the name is in the _value column
SchemaRow(v) ==
    (Underscore(K_time) :> None) @@ (Underscore(K_measurement) :> None)
    @@ (Underscore(K_field) :> None) @@ (Underscore(K_value) :> v)
    @@ (K_result :> "_result") @@ (K_table :> "0")

SchemaRows == {SchemaRow(v) : v \in RowValues}

RowSeqs(R, n) == UNION {[1..i -> R] : i \in 0..n}

RECURSIVE TableSeqs(_, _, _)
\* the results of at most k tables holding at most n rows of R together
TableSeqs(R, n, k) ==
    IF k = 0 THEN {<<>>}
    ELSE {<<>>} \cup UNION {{<<t>> \o rest : rest \in TableSeqs(R, n - Len(t), k - 1)} :
                                t \in RowSeqs(R, n)}

Results == TableSeqs(Rows, MaxRows, MaxTables)

SchemaResults == TableSeqs(SchemaRows, MaxRows, MaxTables)

\* FluxRecord.get_time / get_measurement / get_field / get_value
get_time(row) == row[Underscore(K_time)]
get_measurement(row) == row[Underscore(K_measurement)]
get_field(row) == row[Underscore(K_field)]
get_value(row) == row[Underscore(K_value)]

Copied_unless_underscore(key) == ~startswith(key, "_")

\* the test of line 110: the column is copied unless it is reserved
Copied(key) == ~(startswith(key, "_") \/ key \in {K_result, K_table})

\* lines 101-112: the flat record of one row
record_dict(row) ==
    LET base == (K_time :> get_time(row)) @@ (K_measurement :> get_measurement(row))
                @@ (K_field :> get_field(row)) @@ (K_value :> get_value(row))
        tagKeys == {key \in DOMAIN row : Copied(key)}
    IN  [key \in DOMAIN base \cup tagKeys |-> IF key \in tagKeys THEN row[key] ELSE base[key]]

RECURSIVE FlattenTable(_)
\* lines 100-114: the rows of one table, in order
FlattenTable(rows) ==
    IF rows = <<>> THEN <<>>
    ELSE <<record_dict(Head(rows))>> \o FlattenTable(Tail(rows))

RECURSIVE Flatten(_)
\* lines 98-114: the tables of a result, in order
Flatten(tables) ==
    IF tables = <<>> THEN <<>>
    ELSE FlattenTable(Head(tables)) \o Flatten(Tail(tables))

(***************************************************************************)
(* The environment of one call: what the library and the store do.         *)
(***************************************************************************)
\* InfluxDBClient(...) returns a client, or raises
CtorOutcomes == {"ok", "raise"}

\* client.health() raises, or returns a HealthCheck (its status), or nothing
HealthOutcomes == {"raise", "pass", "fail", None}

\* query_api.query(query) raises ApiException, raises something else, or returns tables
ApiException == [kind |-> "ApiException"]
OtherException == [kind |-> "Exception"]
Returned(tables) == [kind |-> "tables", tables |-> tables]

\* the engine outcomes the lifecycle specification draws from
SampleResults == {<<>>, <<<<Row("cpu", NoTags)>>>>}
EngineOutcomes == {ApiException, OtherException} \cup {Returned(ts) : ts \in SampleResults}

\* get_config() returns the configuration, or raises
ConfigOutcomes == {"ok", "raise"}

\* the Flux texts a caller passes to execute_flux_query
FluxQueries == {"buckets()", "from(bucket: \"config.bucket\")"}

\* the bucket names a caller passes to list_measurements
BucketNames == {"config.bucket", "other"}

\* what the store holds: its bucket descriptors, a bucket's measurement names
BucketLists == {<<>>, <<"config.bucket">>, <<"config.bucket", "other">>}
MeasurementLists == {<<>>, <<"temp">>, <<"load", "temp">>}

(***************************************************************************)
(* The state a method works on, and what a method call yields: the new     *)
(* state, the exception it raised ("" when none), the value it returned    *)
(* and the calls it made on the library, in order: <<call, handle>>, the   *)
(* call's name ending in _raised when the library raised.                  *)
(***************************************************************************)
World ==
    [client |-> client, query_api |-> query_api, owner |-> owner, closes |-> closes,
     influxdb_manager |-> influxdb_manager]

Outcome(w, raised, value, events) ==
    [w |-> w, raised |-> raised, value |-> value, events |-> events]

\* InfluxDBManager(config): a new manager, not connected
NewManager(w) ==
    [w EXCEPT !.client = Append(w.client, NoHandle),
              !.query_api = Append(w.query_api, NoHandle)]

\* InfluxDBManager.connect: a new client is created and bound, whatever was bound
\* before, and nothing is closed; when the constructor raises, nothing is bound
\* and the exception is re-raised.  (query_api() wraps the client just created
\* and talks to no one: connect fails where the constructor fails.)
connect(w, m, ctor) ==
    IF ctor = "raise"
    THEN Outcome(w, "ConnectFailed", None, <<<<"InfluxDBClient_raised", NoHandle>>>>)
    ELSE LET h == Len(w.owner) + 1
         IN  Outcome([w EXCEPT !.owner = Append(w.owner, m),
                               !.closes = Append(w.closes, 0),
                               !.client[m] = h,
                               !.query_api[m] = h],
                     "", None, <<<<"InfluxDBClient", h>>>>)

disconnect_keeps_query_api(w, m) ==
    IF w.client[m] # NoHandle
    THEN LET h == w.client[m]
         IN  Outcome([w EXCEPT !.closes[h] = @ + 1, !.client[m] = NoHandle],
                     "", None, <<<<"close", h>>>>)
    ELSE Outcome(w, "", None, <<>>)

\* InfluxDBManager.disconnect
disconnect(w, m) ==
    IF w.client[m] # NoHandle
    THEN LET h == w.client[m]
         IN  Outcome([w EXCEPT !.closes[h] = @ + 1,
                               !.client[m] = NoHandle,
                               !.query_api[m] = NoHandle],
                     "", None, <<<<"close", h>>>>)
    ELSE Outcome(w, "", None, <<>>)

\* InfluxDBManager.__enter__
__enter__(w, m, ctor) == connect(w, m, ctor)

\* InfluxDBManager.__exit__
__exit__(w, m) == disconnect(w, m)

\* the record test_connection returns when the health call returned (the
\* HealthCheck carries no message of its own here)
ConnectedRecord(health) ==
    [status |-> "connected",
     health |-> IF health # None THEN health ELSE "unknown",
     message |-> "Connection successful",
     url |-> "config.url", org |-> "config.org", bucket |-> "config.bucket"]

\* the record test_connection returns for a caught exception
ErrorRecord(e) ==
    [status |-> "error", message |-> e,
     url |-> "config.url", org |-> "config.org", bucket |-> "config.bucket"]

test_connection_unguarded(w, m, ctor, health) ==
    LET c == IF w.client[m] = NoHandle THEN connect(w, m, ctor) ELSE Outcome(w, "", None, <<>>)
    IN  IF c.raised # "" THEN Outcome(c.w, c.raised, None, c.events)
        ELSE IF health = "raise"
             THEN Outcome(c.w, "HealthFailed", None,
                          c.events \o <<<<"health_raised", c.w.client[m]>>>>)
             ELSE Outcome(c.w, "", ConnectedRecord(health),
                          c.events \o <<<<"health", c.w.client[m]>>>>)

\* InfluxDBManager.test_connection
test_connection(w, m, ctor, health) ==
    LET c == IF w.client[m] = NoHandle THEN connect(w, m, ctor) ELSE Outcome(w, "", None, <<>>)
    IN  IF c.raised # "" THEN Outcome(c.w, "", ErrorRecord(c.raised), c.events)
        ELSE IF c.w.client[m] # NoHandle
             THEN IF health = "raise"
                  THEN Outcome(c.w, "", ErrorRecord("HealthFailed"),
                               c.events \o <<<<"health_raised", c.w.client[m]>>>>)
                  ELSE Outcome(c.w, "", ConnectedRecord(health),
                               c.events \o <<<<"health", c.w.client[m]>>>>)
             ELSE Outcome(c.w, "", ErrorRecord("Failed to establish connection"), c.events)

execute_query_autoconnect(w, m, ctor, eng) ==
    LET c == IF w.query_api[m] = NoHandle THEN connect(w, m, ctor) ELSE Outcome(w, "", None, <<>>)
    IN  IF c.raised # "" THEN c
        ELSE LET h == c.w.query_api[m]
             IN  IF eng.kind = "ApiException"
                 THEN Outcome(c.w, "Query failed", None, c.events \o <<<<"query_raised", h>>>>)
                 ELSE IF eng.kind = "Exception"
                 THEN Outcome(c.w, "Exception", None, c.events \o <<<<"query_raised", h>>>>)
                 ELSE Outcome(c.w, "", Flatten(eng.tables), c.events \o <<<<"query", h>>>>)

\* InfluxDBManager.execute_query; ctor is the outcome a constructor call would
\* have, were one made
execute_query(w, m, ctor, eng) ==
    IF w.query_api[m] = NoHandle
    THEN Outcome(w, "Not connected to InfluxDB", None, <<>>)
    ELSE LET h == w.query_api[m]
         IN  IF eng.kind = "ApiException"
             THEN Outcome(w, "Query failed", None, <<<<"query_raised", h>>>>)
             ELSE IF eng.kind = "Exception"
             THEN Outcome(w, "Exception", None, <<<<"query_raised", h>>>>)
             ELSE Outcome(w, "", Flatten(eng.tables), <<<<"query", h>>>>)

(***************************************************************************)
(* server.py: the process-wide manager, the probing tool and route.        *)
(***************************************************************************)
\* config.get_config: the exception it raises ("" when it returns)
get_config(cfg) == IF cfg = "raise" THEN "ConfigError" ELSE ""

\* get_influxdb_manager, run without interruption: the manager is bound to the
\* global before connect() is called on it
get_influxdb_manager(w, cfg, ctor) ==
    IF w.influxdb_manager = NoManager
    THEN IF get_config(cfg) # ""
         THEN Outcome(w, get_config(cfg), None, <<>>)
         ELSE LET w1 == NewManager(w)
                  m == Len(w1.client)
                  c == connect([w1 EXCEPT !.influxdb_manager = m], m, ctor)
              IN  IF c.raised # "" THEN c ELSE Outcome(c.w, "", m, c.events)
    ELSE Outcome(w, "", w.influxdb_manager, <<>>)

\* the test_connection tool
tool_test_connection(w, cfg, ctor, health) ==
    LET g == get_influxdb_manager(w, cfg, ctor)
    IN  IF g.raised # ""
        THEN Outcome(g.w, "", [status |-> "error", message |-> g.raised], g.events)
        ELSE LET t == test_connection(g.w, g.value, ctor, health)
             IN  IF t.raised # ""
                 THEN Outcome(t.w, "", [status |-> "error", message |-> t.raised],
                              g.events \o t.events)
                 ELSE Outcome(t.w, "", t.value, g.events \o t.events)

\* the /healthcheck route: the body of the JSON response it returns (nothing
\* outside the inner try raises, so the 503 answer of line 71 is never built)
healthcheck(w, cfg, ctor, health) ==
    LET g == get_influxdb_manager(w, cfg, ctor)
    IN  IF g.raised # ""
        THEN Outcome(g.w, "",
                     [status |-> "healthy", service |-> "influxdb-mcp",
                      influxdb_status |-> "error", influxdb_error |-> g.raised],
                     g.events)
        ELSE LET t == test_connection(g.w, g.value, ctor, health)
             IN  IF t.raised # ""
                 THEN Outcome(t.w, "",
                              [status |-> "healthy", service |-> "influxdb-mcp",
                               influxdb_status |-> "error", influxdb_error |-> t.raised],
                              g.events \o t.events)
                 ELSE Outcome(t.w, "",
                              [status |-> "healthy", service |-> "influxdb-mcp",
                               influxdb_status |-> t.value.status],
                              g.events \o t.events)

\* class InfluxDBManager: the attributes a manager has
Methods ==
    {"__init__", "__enter__", "__exit__", "connect", "disconnect", "test_connection",
     "execute_query", "get_measurements", "get_fields", "get_tags", "get_recent_data",
     "query_data_range"}

\* manager.<name>(...): looking up a name the class does not define raises
\* AttributeError before anything is called; answer is what the method returns
CallMethod(w, name, answer) ==
    IF name \in Methods THEN Outcome(w, "", answer, <<>>)
    ELSE Outcome(w, "AttributeError", None, <<>>)

\* the list_buckets tool
list_buckets(w, cfg, ctor, buckets) ==
    LET g == get_influxdb_manager(w, cfg, ctor)
    IN  IF g.raised # ""
        THEN Outcome(g.w, "", [status |-> "error", message |-> g.raised], g.events)
        ELSE LET c == CallMethod(g.w, "list_buckets", buckets)
             IN  IF c.raised # ""
                 THEN Outcome(c.w, "", [status |-> "error", message |-> c.raised],
                              g.events \o c.events)
                 ELSE Outcome(c.w, "",
                              [status |-> "success", buckets |-> c.value, count |-> Len(c.value)],
                              g.events \o c.events)

\* the list_measurements tool
list_measurements(w, cfg, ctor, bucket, measurements) ==
    LET g == get_influxdb_manager(w, cfg, ctor)
    IN  IF g.raised # ""
        THEN Outcome(g.w, "", [status |-> "error", message |-> g.raised], g.events)
        ELSE LET c == CallMethod(g.w, "list_measurements", measurements)
             IN  IF c.raised # ""
                 THEN Outcome(c.w, "", [status |-> "error", message |-> c.raised],
                              g.events \o c.events)
                 ELSE Outcome(c.w, "",
                              [status |-> "success", measurements |-> c.value,
                               count |-> Len(c.value)],
                              g.events \o c.events)

execute_flux_query_unguarded(w, cfg, ctor, query, eng) ==
    LET g == get_influxdb_manager(w, cfg, ctor)
    IN  IF g.raised # "" THEN Outcome(g.w, g.raised, None, g.events)
        ELSE LET q == execute_query(g.w, g.value, ctor, eng)
             IN  IF q.raised # "" THEN Outcome(q.w, q.raised, None, g.events \o q.events)
                 ELSE Outcome(q.w, "",
                              [status |-> "success", query |-> query, data |-> q.value,
                               record_count |-> Len(q.value)],
                              g.events \o q.events)

\* the execute_flux_query tool
execute_flux_query(w, cfg, ctor, query, eng) ==
    LET g == get_influxdb_manager(w, cfg, ctor)
    IN  IF g.raised # ""
        THEN Outcome(g.w, "", [status |-> "error", message |-> g.raised, query |-> query],
                     g.events)
        ELSE LET q == execute_query(g.w, g.value, ctor, eng)
             IN  IF q.raised # ""
                 THEN Outcome(q.w, "",
                              [status |-> "error", message |-> q.raised, query |-> query],
                              g.events \o q.events)
                 ELSE Outcome(q.w, "",
                              [status |-> "success", query |-> query, data |-> q.value,
                               record_count |-> Len(q.value)],
                              g.events \o q.events)

\* the get_server_info tool: the descriptor it returns has no status
get_server_info(w, cfg) ==
    IF get_config(cfg) # ""
    THEN Outcome(w, "", [status |-> "error", message |-> get_config(cfg)], <<>>)
    ELSE Outcome(w, "",
                 [server_name |-> "influxdb-mcp", version |-> "0.1.0",
                  description |-> "MCP server providing read-only access to InfluxDB v2 database",
                  influxdb_config |-> [url |-> "config.url", org |-> "config.org",
                                       use_ssl |-> "config.use_ssl",
                                       timeout |-> "config.timeout"]],
                 <<>>)

\* main()'s finally block
shutdown(w) ==
    IF w.influxdb_manager # NoManager THEN disconnect(w, w.influxdb_manager)
    ELSE Outcome(w, "", None, <<>>)

(***************************************************************************)
(* Spec: the calls, one at a time.                                         *)
(***************************************************************************)
Threads == 1..NThreads

\* the manager a library user constructed
LibManagers == {1}

NoCall == [op |-> "none", m |-> NoManager, raised |-> "", value |-> None, events |-> <<>>]

Called(op, m, r) ==
    [op |-> op, m |-> m, pre |-> World, raised |-> r.raised, value |-> r.value,
     events |-> r.events]

Fits(w) == Len(w.owner) <= MaxHandles

Commit(w) ==
    /\ client' = w.client
    /\ query_api' = w.query_api
    /\ owner' = w.owner
    /\ closes' = w.closes
    /\ influxdb_manager' = w.influxdb_manager

\* one completed call with outcome r
Does(op, m, r) ==
    /\ Fits(r.w)
    /\ Commit(r.w)
    /\ last' = Called(op, m, r)
    /\ UNCHANGED <<pc, ret, stopped, call>>

Init ==
    /\ client = <<NoHandle>>
    /\ query_api = <<NoHandle>>
    /\ owner = <<>>
    /\ closes = <<>>
    /\ influxdb_manager = NoManager
    /\ pc = [t \in Threads |-> "idle"]
    /\ ret = [t \in Threads |-> NoManager]
    /\ stopped = FALSE
    /\ last = NoCall
    /\ call = NoCall

Connect(m) == \E ctor \in CtorOutcomes : Does("connect", m, connect(World, m, ctor))

Disconnect(m) == Does("disconnect", m, disconnect(World, m))

Enter(m) == \E ctor \in CtorOutcomes : Does("__enter__", m, __enter__(World, m, ctor))

Exit(m) == Does("__exit__", m, __exit__(World, m))

TestConnection(m) ==
    \E ctor \in CtorOutcomes, health \in HealthOutcomes :
        Does("test_connection", m, test_connection(World, m, ctor, health))

ExecuteQuery(m) ==
    \E ctor \in CtorOutcomes, eng \in EngineOutcomes :
        Does("execute_query", m, execute_query(World, m, ctor, eng))

ToolTestConnection ==
    /\ ~stopped
    /\ \E cfg \in ConfigOutcomes, ctor \in CtorOutcomes, health \in HealthOutcomes :
           Does("tool_test_connection", NoManager, tool_test_connection(World, cfg, ctor, health))

Healthcheck ==
    /\ ~stopped
    /\ \E cfg \in ConfigOutcomes, ctor \in CtorOutcomes, health \in HealthOutcomes :
           Does("healthcheck", NoManager, healthcheck(World, cfg, ctor, health))

\* one completed tool call on the inputs env, with outcome r
DoesTool(op, env, r) ==
    /\ Fits(r.w)
    /\ Commit(r.w)
    /\ last' = Called(op, NoManager, r) @@ env
    /\ UNCHANGED <<pc, ret, stopped, call>>

ListBuckets ==
    /\ ~stopped
    /\ \E cfg \in ConfigOutcomes, ctor \in CtorOutcomes, buckets \in BucketLists :
           DoesTool("list_buckets", [cfg |-> cfg, ctor |-> ctor, buckets |-> buckets],
                    list_buckets(World, cfg, ctor, buckets))

ListMeasurements ==
    /\ ~stopped
    /\ \E cfg \in ConfigOutcomes, ctor \in CtorOutcomes, bucket \in BucketNames,
          measurements \in MeasurementLists :
           DoesTool("list_measurements",
                    [cfg |-> cfg, ctor |-> ctor, bucket |-> bucket,
                     measurements |-> measurements],
                    list_measurements(World, cfg, ctor, bucket, measurements))

ExecuteFluxQuery ==
    /\ ~stopped
    /\ \E cfg \in ConfigOutcomes, ctor \in CtorOutcomes, query \in FluxQueries,
          eng \in EngineOutcomes :
           DoesTool("execute_flux_query",
                    [cfg |-> cfg, ctor |-> ctor, query |-> query, engine |-> eng],
                    execute_flux_query(World, cfg, ctor, query, eng))

GetServerInfo ==
    /\ ~stopped
    /\ \E cfg \in ConfigOutcomes :
           DoesTool("get_server_info", [cfg |-> cfg], get_server_info(World, cfg))

Shutdown ==
    /\ ~stopped
    /\ LET r == shutdown(World)
       IN  /\ Commit(r.w)
           /\ last' = Called("shutdown", NoManager, r)
    /\ stopped' = TRUE
    /\ UNCHANGED <<pc, ret, call>>

Next ==
    \/ \E m \in LibManagers :
           \/ Connect(m)
           \/ Disconnect(m)
           \/ Enter(m)
           \/ Exit(m)
           \/ TestConnection(m)
           \/ ExecuteQuery(m)
    \/ ToolTestConnection
    \/ Healthcheck
    \/ ListBuckets
    \/ ListMeasurements
    \/ ExecuteFluxQuery
    \/ GetServerInfo
    \/ Shutdown

Spec == Init /\ [][Next]_vars

(***************************************************************************)
(* Schema discovery: get_measurements, get_fields, get_tags.               *)
(***************************************************************************)
\* [record.get("_value", "") for record in results if record.get("_value")]
ValueColumn(results) ==
    LET kept == SelectSeq(results, LAMBDA record : Truthy(DictGet(record, Underscore(K_value), None)))
    IN  [i \in 1..Len(kept) |-> DictGet(kept[i], Underscore(K_value), "")]

\* the schema query a method sends
schema_query(fn, bucket, measurement, tag) ==
    [fn |-> fn, bucket |-> bucket, measurement |-> measurement, tag |-> tag]

\* InfluxDBManager.get_measurements
get_measurements(w, m, eng) ==
    LET r == execute_query(w, m, "ok", eng)
    IN  IF r.raised # "" THEN Outcome(r.w, "", <<>>, r.events)
        ELSE Outcome(r.w, "", sorted(Range(ValueColumn(r.value))), r.events)

\* InfluxDBManager.get_fields
get_fields(w, m, measurement, eng) ==
    LET r == execute_query(w, m, "ok", eng)
    IN  IF r.raised # "" THEN Outcome(r.w, "", <<>>, r.events)
        ELSE Outcome(r.w, "", sorted(Range(ValueColumn(r.value))), r.events)

\* lines 178-195: the entry of one tag key; engOf[key] is the engine's outcome
\* for that key's tagValues query
tag_values(w, m, engOf, tag_key) ==
    LET r == execute_query(w, m, "ok", engOf[tag_key])
    IN  IF r.raised # "" THEN <<>> ELSE sorted(Range(ValueColumn(r.value)))

\* InfluxDBManager.get_tags: the mapping from tag key to values
get_tags(w, m, measurement, keysEng, engOf) ==
    LET r == execute_query(w, m, "ok", keysEng)
    IN  IF r.raised # "" THEN Outcome(r.w, "", <<>>, r.events)
        ELSE LET tag_keys == {k \in Range(ValueColumn(r.value)) : Truthy(k)}
             IN  Outcome(r.w, "", [k \in tag_keys |-> tag_values(w, m, engOf, k)], r.events)

(***************************************************************************)
(* Query construction.  A query is the sequence of its pipeline stages; a  *)
(* piece of query text is the sequence of the fragments the f-string puts  *)
(* together.  An optional argument is <<>> (None) or <<x>>.                *)
(***************************************************************************)
Nothing == <<>>
Some(x) == <<x>>

RECURSIVE join(_, _)
\* sep.join(parts)
join(sep, parts) ==
    IF parts = <<>> THEN <<>>
    ELSE IF Len(parts) = 1 THEN parts[1]
    ELSE parts[1] \o <<sep>> \o join(sep, Tail(parts))

\* line 229
measurement_filter(measurement) == <<"r._measurement == \"", measurement, "\"">>

\* line 233
field_condition(field) == <<"r._field == \"", field, "\"">>

\* line 239
tag_filter(tag) == <<"r.", tag[1], " == \"", tag[2], "\"">>

filter_clause_group_unless_none(measurement, fields, tags) ==
    LET field_conditions == [i \in 1..Len(fields[1]) |-> field_condition(fields[1][i])]
        group == IF fields # Nothing
                 THEN <<<<"(">> \o join(" or ", field_conditions) \o <<")">>>>
                 ELSE <<>>
        tag_filters == IF tags # Nothing /\ tags[1] # <<>>
                       THEN [i \in 1..Len(tags[1]) |-> tag_filter(tags[1][i])]
                       ELSE <<>>
    IN  join(" and ", <<measurement_filter(measurement)>> \o group \o tag_filters)

\* lines 229-241: filter_clause
filter_clause(measurement, fields, tags) ==
    LET field_conditions == [i \in 1..Len(fields[1]) |-> field_condition(fields[1][i])]
        group == IF fields # Nothing /\ fields[1] # <<>>
                 THEN <<<<"(">> \o join(" or ", field_conditions) \o <<")">>>>
                 ELSE <<>>
        tag_filters == IF tags # Nothing /\ tags[1] # <<>>
                       THEN [i \in 1..Len(tags[1]) |-> tag_filter(tags[1][i])]
                       ELSE <<>>
    IN  join(" and ", <<measurement_filter(measurement)>> \o group \o tag_filters)

\* lines 223-252: the query of query_data_range
range_query(bucket, measurement, start_time, end_time, fields, tags, limit) ==
    <<[op |-> "from", bucket |-> bucket],
      [op |-> "range",
       text |-> <<"range(start: ", start_time>>
                \o (IF end_time # Nothing /\ end_time[1] # ""
                    THEN <<", stop: ", end_time[1]>> ELSE <<>>)
                \o <<")">>],
      [op |-> "filter", fn |-> filter_clause(measurement, fields, tags)],
      [op |-> "sort", columns |-> <<"_time">>, desc |-> TRUE]>>
    \o (IF limit # Nothing /\ limit[1] # 0
        THEN <<[op |-> "limit", n |-> limit[1]]>> ELSE <<>>)

\* lines 205-211: the query of get_recent_data
recent_query(bucket, measurement, limit, time_range) ==
    <<[op |-> "from", bucket |-> bucket],
      [op |-> "range", text |-> <<"range(start: ", time_range, ")">>],
      [op |-> "filter", fn |-> measurement_filter(measurement)],
      [op |-> "limit", n |-> limit],
      [op |-> "sort", columns |-> <<"_time">>, desc |-> TRUE]>>

(***************************************************************************)
(* The engine running a query of get_recent_data over the rows stored for  *)
(* one series per measurement, in the order the store keeps them           *)
(* (ascending time).  A stored row is [time, measurement].                 *)
(***************************************************************************)
Min(a, b) == IF a <= b THEN a ELSE b

RECURSIVE SortDesc(_)
\* sort(columns: ["_time"], desc: true)
SortDesc(rows) ==
    IF rows = <<>> THEN <<>>
    ELSE LET hi == CHOOSE i \in 1..Len(rows) : \A j \in 1..Len(rows) : rows[i].time >= rows[j].time
         IN  <<rows[hi]>> \o SortDesc(SubSeq(rows, 1, hi - 1) \o SubSeq(rows, hi + 1, Len(rows)))

\* one stage applied to the stream of rows
RunStage(stage, rows) ==
    CASE stage.op = "from" -> rows
      [] stage.op = "range" -> rows
      [] stage.op = "filter" -> SelectSeq(rows, LAMBDA r : r.measurement = stage.fn[2])
      [] stage.op = "limit" -> SubSeq(rows, 1, Min(stage.n, Len(rows)))
      [] stage.op = "sort" -> SortDesc(rows)

RECURSIVE RunQuery(_, _)
\* the stages applied in the order the query names them
RunQuery(query, rows) ==
    IF query = <<>> THEN rows
    ELSE RunQuery(Tail(query), RunStage(Head(query), rows))

\* the row the engine returns for a stored row
DataRow(r) ==
    (Underscore(K_time) :> r.time) @@ (Underscore(K_measurement) :> r.measurement)
    @@ (Underscore(K_field) :> "avg") @@ (Underscore(K_value) :> "cpu")
    @@ (K_result :> "_result") @@ (K_table :> "0")

\* the engine's answer: one table, or none when no row is left
Answer(rows) == IF rows = <<>> THEN <<>> ELSE <<[i \in 1..Len(rows) |-> DataRow(rows[i])]>>

Measurements == {"temp", "load"}

\* the stores: rows at times 1, 2, ... of either measurement
DataSets ==
    UNION {{[i \in 1..n |-> [time |-> i, measurement |-> f[i]]] : f \in [1..n -> Measurements]} :
              n \in 0..MaxData}

\* InfluxDBManager.get_recent_data on a connected manager over a reachable store
get_recent_data(w, m, measurement, limit, time_range, data) ==
    LET query == recent_query("config.bucket", measurement, limit, time_range)
    IN  execute_query(w, m, "ok", Returned(Answer(RunQuery(query, data))))

(***************************************************************************)
(* SpecConc: tool invocations inside get_influxdb_manager at once, one     *)
(* step per line of the function, then main()'s finally block.             *)
(***************************************************************************)
At(t, line) == pc[t] = line

Goto(t, line) == pc' = [pc EXCEPT ![t] = line]

\* line 77: if influxdb_manager is None
L77(t) ==
    /\ At(t, "L77")
    /\ Goto(t, IF influxdb_manager = NoManager THEN "L78" ELSE "L81")
    /\ UNCHANGED <<client, query_api, owner, closes, influxdb_manager, ret, stopped, last, call>>

\* line 78: config = get_config()
L78(t) ==
    /\ At(t, "L78")
    /\ \E cfg \in ConfigOutcomes : Goto(t, IF get_config(cfg) # "" THEN "raised" ELSE "L79")
    /\ UNCHANGED <<client, query_api, owner, closes, influxdb_manager, ret, stopped, last, call>>

\* line 79: influxdb_manager = InfluxDBManager(config)
L79(t) ==
    /\ At(t, "L79")
    /\ LET w == NewManager(World)
       IN  Commit([w EXCEPT !.influxdb_manager = Len(w.client)])
    /\ Goto(t, "L80")
    /\ UNCHANGED <<ret, stopped, last, call>>

\* line 80: influxdb_manager.connect(), on the manager the global names now
L80(t) ==
    /\ At(t, "L80")
    /\ \E ctor \in CtorOutcomes :
           LET r == connect(World, influxdb_manager, ctor)
           IN  /\ Fits(r.w)
               /\ Commit(r.w)
               /\ Goto(t, IF r.raised # "" THEN "raised" ELSE "L81")
    /\ UNCHANGED <<ret, stopped, last, call>>

\* line 81: return influxdb_manager
L81(t) ==
    /\ At(t, "L81")
    /\ ret' = [ret EXCEPT ![t] = influxdb_manager]
    /\ Goto(t, "done")
    /\ UNCHANGED <<client, query_api, owner, closes, influxdb_manager, stopped, last, call>>

\* main()'s finally block, once the server has stopped serving
ConcShutdown ==
    /\ ~stopped
    /\ \A t \in Threads : pc[t] \in {"done", "raised"}
    /\ Commit(shutdown(World).w)
    /\ stopped' = TRUE
    /\ UNCHANGED <<pc, ret, last, call>>

InitConc ==
    /\ client = <<>>
    /\ query_api = <<>>
    /\ owner = <<>>
    /\ closes = <<>>
    /\ influxdb_manager = NoManager
    /\ pc = [t \in Threads |-> "L77"]
    /\ ret = [t \in Threads |-> NoManager]
    /\ stopped = FALSE
    /\ last = NoCall
    /\ call = NoCall

NextConc ==
    \/ \E t \in Threads : L77(t) \/ L78(t) \/ L79(t) \/ L80(t) \/ L81(t)
    \/ ConcShutdown

SpecConc == InitConc /\ [][NextConc]_vars

(***************************************************************************)
(* The claims.                                                             *)
(***************************************************************************)
Names(events) == {events[i][1] : i \in 1..Len(events)}

OpenHandles(m) == {h \in 1..Len(owner) : owner[h] = m /\ closes[h] = 0}

\* C1: probing never raises.  InfluxDBManager.test_connection, the
\* test_connection tool and the /healthcheck route each return a record with a
\* status, whatever the manager's state and whichever of the constructor and
\* the health call raised; the manager's record says "connected" exactly when
\* the health call returned, otherwise "error" with a message, and always
\* carries url, org and bucket.
C1_ProbingNeverRaises ==
    /\ last.op \in {"test_connection", "tool_test_connection", "healthcheck"}
           => last.raised = "" /\ "status" \in DOMAIN last.value
    /\ last.op = "test_connection"
           => /\ last.raised = ""
              /\ {"url", "org", "bucket"} \subseteq DOMAIN last.value
              /\ last.value.status \in {"connected", "error"}
              /\ last.value.status = "connected" <=> "health" \in Names(last.events)
              /\ last.value.status = "error" => "message" \in DOMAIN last.value

\* C1's case: a manager that was connected and disconnected is probed, the
\* automatic connect raises, and an error record comes back.
C1_Witness ==
    /\ last.op = "test_connection"
    /\ last.pre.client[last.m] = NoHandle
    /\ \E h \in 1..Len(last.pre.owner) : last.pre.owner[h] = last.m
    /\ "InfluxDBClient_raised" \in Names(last.events)
    /\ last.value.status = "error"

\* C2, as claimed: execute_query on a manager that is not connected makes a
\* connect attempt of its own, runs the query when that attempt succeeds, and
\* fails with a connection error only when the attempt failed.
C2_AutoConnects ==
    (last.op = "execute_query" /\ last.pre.query_api[last.m] = NoHandle)
        => /\ Names(last.events) \cap {"InfluxDBClient", "InfluxDBClient_raised"} # {}
           /\ "InfluxDBClient" \in Names(last.events)
                  => Names(last.events) \cap {"query", "query_raised"} # {}
           /\ last.raised \in {"Not connected to InfluxDB", "ConnectFailed"}
                  => "InfluxDBClient_raised" \in Names(last.events)

\* C2, amended: execute_query on a manager that is not connected makes no
\* connect attempt and sends no query; it raises "Not connected to InfluxDB"
\* and leaves the state as it was.
C2_NotConnectedRaises ==
    (last.op = "execute_query" /\ last.pre.query_api[last.m] = NoHandle)
        => /\ last.raised = "Not connected to InfluxDB"
           /\ last.events = <<>>
           /\ World = last.pre

\* C2's case: execute_query is called after connect and disconnect.
C2_Witness ==
    /\ last.op = "execute_query"
    /\ last.pre.query_api[last.m] = NoHandle
    /\ \E h \in 1..Len(last.pre.owner) :
           last.pre.owner[h] = last.m /\ last.pre.closes[h] = 1

\* C3, as claimed: whatever calls were made on a manager, at most one of the
\* handles it opened is still open.
C3_AtMostOneOpenHandle ==
    \A m \in LibManagers : Cardinality(OpenHandles(m)) <= 1

\* C5: disconnect never raises; on a manager without a client handle (never
\* connected, connect failed, already disconnected) it calls nothing and
\* changes nothing; on a manager with a client handle it closes that handle,
\* once, and unsets the client handle and the query interface, changing
\* nothing else.
C5_DisconnectSafe ==
    last.op = "disconnect"
        => /\ last.raised = ""
           /\ IF last.pre.client[last.m] = NoHandle
              THEN last.events = <<>> /\ World = last.pre
              ELSE LET h == last.pre.client[last.m]
                   IN  /\ last.events = <<<<"close", h>>>>
                       /\ closes[h] = 1
                       /\ client[last.m] = NoHandle
                       /\ query_api[last.m] = NoHandle
                       /\ World = [last.pre EXCEPT !.closes[h] = 1,
                                                   !.client[last.m] = NoHandle,
                                                   !.query_api[last.m] = NoHandle]

\* C5's case: disconnect is called on a manager that was already disconnected.
C5_Witness ==
    /\ last.op = "disconnect"
    /\ last.pre.client[last.m] = NoHandle
    /\ \E h \in 1..Len(last.pre.owner) :
           last.pre.owner[h] = last.m /\ last.pre.closes[h] = 1

\* C4, as claimed: when every concurrent caller of get_influxdb_manager has
\* returned and the server has shut down, one manager and one handle were
\* created, every caller got that manager, and every handle opened was closed
\* exactly once.
C4_OneManagerOneHandle ==
    (stopped /\ \A t \in Threads : pc[t] = "done")
        => /\ Len(client) = 1
           /\ Len(owner) = 1
           /\ \A t \in Threads : ret[t] = influxdb_manager
           /\ \A h \in 1..Len(owner) : closes[h] = 1

(***************************************************************************)
(* SpecQuery: the query methods of a connected manager, each applied to    *)
(* arguments and engine answers drawn from bounded sets.                   *)
(***************************************************************************)
QueryOutcomes == {ApiException, OtherException} \cup {Returned(ts) : ts \in Results}

SchemaOutcomes == {ApiException, OtherException} \cup {Returned(ts) : ts \in SchemaResults}

\* the outcomes of one tag key's tagValues query
TagValueOutcomes ==
    {ApiException, Returned(<<>>),
     Returned(<<<<SchemaRow("us"), SchemaRow("cpu")>>, <<SchemaRow("cpu")>>>>)}

TagKeyNames == RowValues \ {""}

FieldNames == {"avg", "max"}

FieldLists == {Nothing} \cup {Some(fs) : fs \in UNION {[1..n -> FieldNames] : n \in 0..MaxFields}}

TagKeys == {"region", "host"}

TagValues == {"us", "eu"}

\* dict literals: key/value pairs in insertion order, no key twice
TagDicts ==
    {d \in UNION {[1..n -> TagKeys \X TagValues] : n \in 0..Cardinality(TagKeys)} :
        \A i, j \in 1..Len(d) : d[i][1] = d[j][1] => i = j}

TagArgs == {Nothing} \cup {Some(d) : d \in TagDicts}

EndTimes == {Nothing, Some("now()")}

Limits == {Nothing, Some(0), Some(50)}

\* the manager of SpecQuery
TheManager == Len(client)

InitQuery ==
    /\ client = <<1>>
    /\ query_api = <<1>>
    /\ owner = <<1>>
    /\ closes = <<0>>
    /\ influxdb_manager = NoManager
    /\ pc = [t \in Threads |-> "idle"]
    /\ ret = [t \in Threads |-> NoManager]
    /\ stopped = FALSE
    /\ last = NoCall
    /\ call = NoCall

\* a behaviour of SpecQuery is one call: the methods keep no state between calls
Frame ==
    /\ call = NoCall
    /\ UNCHANGED <<client, query_api, owner, closes, influxdb_manager, pc, ret, stopped, last>>

QExecuteQuery ==
    /\ Frame
    /\ \E eng \in QueryOutcomes :
           LET r == execute_query(World, TheManager, "ok", eng)
           IN  call' = [op |-> "execute_query", engine |-> eng,
                        raised |-> r.raised, value |-> r.value]

QGetMeasurements ==
    /\ Frame
    /\ \E eng \in SchemaOutcomes :
           LET r == get_measurements(World, TheManager, eng)
           IN  call' = [op |-> "get_measurements",
                        query |-> schema_query("schema.measurements", "config.bucket", None, None),
                        engine |-> eng, raised |-> r.raised, value |-> r.value]

QGetFields ==
    /\ Frame
    /\ \E eng \in SchemaOutcomes, measurement \in Measurements :
           LET r == get_fields(World, TheManager, measurement, eng)
           IN  call' = [op |-> "get_fields",
                        query |-> schema_query("schema.fieldKeys", "config.bucket", measurement, None),
                        engine |-> eng, raised |-> r.raised, value |-> r.value]

QGetTags ==
    /\ Frame
    /\ \E keysEng \in SchemaOutcomes, engOf \in [TagKeyNames -> TagValueOutcomes] :
           LET r == get_tags(World, TheManager, "temp", keysEng, engOf)
           IN  call' = [op |-> "get_tags",
                        query |-> schema_query("schema.tagKeys", "config.bucket", "temp", None),
                        engine |-> keysEng, engOf |-> engOf,
                        raised |-> r.raised, value |-> r.value]

QGetRecentData ==
    /\ Frame
    /\ \E measurement \in Measurements, limit \in 1..MaxData, data \in DataSets :
           LET r == get_recent_data(World, TheManager, measurement, limit, "-1h", data)
           IN  call' = [op |-> "get_recent_data", measurement |-> measurement,
                        limit |-> limit, data |-> data,
                        query |-> recent_query("config.bucket", measurement, limit, "-1h"),
                        raised |-> r.raised, value |-> r.value]

\* InfluxDBManager.query_data_range: the query is built, then executed
QQueryDataRange ==
    /\ Frame
    /\ \E measurement \in Measurements, end_time \in EndTimes, fields \in FieldLists,
          tags \in TagArgs, limit \in Limits, eng \in EngineOutcomes :
           LET r == execute_query(World, TheManager, "ok", eng)
           IN  call' = [op |-> "query_data_range", measurement |-> measurement,
                        fields |-> fields, tags |-> tags, limit |-> limit,
                        query |-> range_query("config.bucket", measurement, "-2h",
                                              end_time, fields, tags, limit),
                        engine |-> eng, raised |-> r.raised, value |-> r.value]

NextQuery ==
    \/ QExecuteQuery
    \/ QGetMeasurements
    \/ QGetFields
    \/ QGetTags
    \/ QGetRecentData
    \/ QQueryDataRange

SpecQuery == InitQuery /\ [][NextQuery]_vars

(***************************************************************************)
(* The claims about the query methods.                                     *)
(***************************************************************************)
RECURSIVE AllRows(_)
\* the rows of a result, table after table
AllRows(tables) ==
    IF tables = <<>> THEN <<>> ELSE tables[1] \o AllRows(SubSeq(tables, 2, Len(tables)))

\* the names a schema answer holds: the non-empty values of its value column
NamesReturned(tables) == {get_value(row) : row \in Range(AllRows(tables))} \ {"", None}

IsSortedNoDup(s) == \A i, j \in 1..Len(s) : i < j => StrRank(s[i]) < StrRank(s[j])

\* C6, as claimed: for every answer of the engine to the measurements (resp.
\* fieldKeys) query, get_measurements (resp. get_fields) returns the distinct
\* non-empty values of the value column of the flattened records, ascending,
\* without duplicates; so it is non-empty when the engine returned a row with a
\* non-empty value.
C6_DistinctSortedValues ==
    (call.op \in {"get_measurements", "get_fields"} /\ call.engine.kind = "tables")
        => /\ call.raised = ""
           /\ Range(call.value) = {rec[K_value] : rec \in Range(Flatten(call.engine.tables))} \ {"", None}
           /\ IsSortedNoDup(call.value)
           /\ NamesReturned(call.engine.tables) # {} => call.value # <<>>

\* C7, as claimed: get_tags returns one entry for every tag key the engine
\* returned to the tagKeys query, holding the sorted distinct values of that
\* key's tagValues answer, or the empty list when that key's query failed.
C7_EntryPerTagKey ==
    (call.op = "get_tags" /\ call.engine.kind = "tables")
        => /\ call.raised = ""
           /\ DOMAIN call.value = NamesReturned(call.engine.tables)
           /\ \A k \in DOMAIN call.value :
                  IF call.engOf[k].kind = "tables"
                  THEN /\ Range(call.value[k]) = NamesReturned(call.engOf[k].tables)
                       /\ IsSortedNoDup(call.value[k])
                  ELSE call.value[k] = <<>>

RECURSIVE Split(_, _)
\* text.split(sep) on a text of fragments
Split(text, sep) ==
    IF \E i \in 1..Len(text) : text[i] = sep
    THEN LET at == CHOOSE i \in 1..Len(text) : text[i] = sep /\ \A j \in 1..(i - 1) : text[j] # sep
         IN  <<SubSeq(text, 1, at - 1)>> \o Split(SubSeq(text, at + 1, Len(text)), sep)
    ELSE <<text>>

ListOf(opt) == IF opt = Nothing THEN <<>> ELSE opt[1]

\* C8: the filter clause of query_data_range is, joined by " and ": the
\* measurement equality; then, exactly when fields is a non-empty list, one
\* parenthesized group of the field equalities joined by " or "; then one
\* equality per tag entry.  With fields empty or absent there is no group.
C8_FilterClause ==
    call.op = "query_data_range"
        => LET fields == ListOf(call.fields)
               tags == ListOf(call.tags)
               clause == call.query[3].fn
               parts == Split(clause, " and ")
               nf == IF fields # <<>> THEN 1 ELSE 0
           IN  /\ call.query[3].op = "filter"
               /\ Len(parts) = 1 + nf + Len(tags)
               /\ parts[1] = <<"r._measurement == \"", call.measurement, "\"">>
               /\ nf = 1 =>
                      LET group == parts[2]
                          alts == Split(SubSeq(group, 2, Len(group) - 1), " or ")
                      IN  /\ group[1] = "(" /\ group[Len(group)] = ")"
                          /\ Len(alts) = Len(fields)
                          /\ \A i \in 1..Len(fields) :
                                 alts[i] = <<"r._field == \"", fields[i], "\"">>
               /\ nf = 0 => Range(clause) \cap {"(", ")", " or ", "r._field == \""} = {}
               /\ \A i \in 1..Len(tags) :
                      parts[1 + nf + i] = <<"r.", tags[i][1], " == \"", tags[i][2], "\"">>

\* C8's case: fields ["avg"], tags {"region": "us"} for measurement temp give
\* r._measurement == "temp" and (r._field == "avg") and r.region == "us".
C8_Witness ==
    /\ call.op = "query_data_range"
    /\ call.measurement = "temp"
    /\ call.fields = Some(<<"avg">>)
    /\ call.tags = Some(<<<<"region", "us">>>>)
    /\ call.query[3].fn = <<"r._measurement == \"", "temp", "\"", " and ",
                            "(", "r._field == \"", "avg", "\"", ")", " and ",
                            "r.", "region", " == \"", "us", "\"">>

\* the times of the rows a call returned
TimesOf(records) == [i \in 1..Len(records) |-> records[i][K_time]]

\* the n most recent times among the rows of a measurement, most recent first
MostRecent(data, measurement, n) ==
    LET times == {data[i].time : i \in {j \in 1..Len(data) : data[j].measurement = measurement}}
        top == {t \in times : Cardinality({u \in times : u > t}) < n}
    IN  CHOOSE s \in [1..Cardinality(top) -> top] : \A i, j \in DOMAIN s : i < j => s[i] > s[j]

\* C9, as claimed: over a store holding more than limit rows of the
\* measurement, get_recent_data returns the limit most recent rows, most
\* recent first.
C9_MostRecentRows ==
    (call.op = "get_recent_data"
     /\ Cardinality({i \in 1..Len(call.data) : call.data[i].measurement = call.measurement}) > call.limit)
        => /\ call.raised = ""
           /\ Len(call.value) = call.limit
           /\ TimesOf(call.value) = MostRecent(call.data, call.measurement, call.limit)

\* C10: execute_query emits one flat record per row, in table order and in row
\* order within a table, duplicates kept, and no record has a key that starts
\* with an underscore or is "result" or "table".
C10_OneRecordPerRow ==
    (call.op = "execute_query" /\ call.engine.kind = "tables")
        => LET rows == AllRows(call.engine.tables)
           IN  /\ call.raised = ""
               /\ Len(call.value) = Len(rows)
               /\ \A i \in 1..Len(rows) :
                      /\ call.value[i][K_value] = rows[i][Underscore(K_value)]
                      /\ call.value[i][K_measurement] = rows[i][Underscore(K_measurement)]
                      /\ call.value[i][K_field] = rows[i][Underscore(K_field)]
                      /\ \A key \in DOMAIN rows[i] :
                             (key[1] # "_" /\ key # K_result /\ key # K_table)
                                 => key \in DOMAIN call.value[i] /\ call.value[i][key] = rows[i][key]
                      /\ \A key \in DOMAIN call.value[i] :
                             key[1] # "_" /\ key # K_result /\ key # K_table

\* C10's case: two tables, the first holding the same row twice, give three
\* records, the first two equal and the third another.
C10_Witness ==
    /\ call.op = "execute_query"
    /\ call.engine.kind = "tables"
    /\ Len(call.engine.tables) = 2
    /\ Len(call.engine.tables[1]) = 2
    /\ Len(call.engine.tables[2]) = 1
    /\ Len(call.value) = 3
    /\ call.value[1] = call.value[2]
    /\ call.value[3][K_value] = "cpu"
    /\ call.value[1][K_value] = "mem"
    /\ K_region \in DOMAIN call.value[3]

\* C11, as claimed: in every flat record execute_query produces, the keys time,
\* measurement, field and value hold the row's _time, _measurement, _field and
\* _value columns, also for a row carrying a non-reserved column that is named
\* time, measurement, field or value.
C11_StandardKeys ==
    (call.op = "execute_query" /\ call.engine.kind = "tables")
        => LET rows == AllRows(call.engine.tables)
           IN  /\ call.raised = ""
               /\ Len(call.value) = Len(rows)
               /\ \A i \in 1..Len(rows) :
                      \A k \in {K_time, K_measurement, K_field, K_value} :
                          call.value[i][k] = rows[i][Underscore(k)]

(***************************************************************************)
(* The claims about the boundary tools.                                    *)
(***************************************************************************)
BoundaryTools == {"list_buckets", "list_measurements", "execute_flux_query", "get_server_info"}

\* the call loaded the configuration and loading raised
ConfigFailed(c) ==
    /\ c.cfg = "raise"
    /\ c.op = "get_server_info" \/ c.pre.influxdb_manager = NoManager

\* the call made a connect attempt and it raised
ConnectFailed(c) == "InfluxDBClient_raised" \in Names(c.events)

\* the call reached the manager with a connected client, or connected it
ReachedConnected(c) ==
    /\ ~ConfigFailed(c)
    /\ ~ConnectFailed(c)
    /\ \/ "InfluxDBClient" \in Names(c.events)
       \/ /\ c.pre.influxdb_manager # NoManager
          /\ c.pre.query_api[c.pre.influxdb_manager] # NoHandle

\* the client call the tool makes on the manager returned
ClientCallReturned(c) ==
    IF c.op = "execute_flux_query"
    THEN ReachedConnected(c) /\ c.engine.kind = "tables"
    ELSE ~ConfigFailed(c) /\ ~ConnectFailed(c) /\ c.op \in Methods

HasStatus(c, status) == "status" \in DOMAIN c.value /\ c.value.status = status

\* C12: list_buckets, list_measurements, execute_flux_query and get_server_info
\* never raise; when loading the configuration, connecting or the client call
\* fails they return a record with status "error" and a message; and they
\* return status "success" only when the client call returned.
C12_ToolsNeverRaise ==
    last.op \in BoundaryTools
        => /\ last.raised = ""
           /\ (\/ ConfigFailed(last)
               \/ ConnectFailed(last)
               \/ last.op # "get_server_info" /\ ~ClientCallReturned(last))
                  => HasStatus(last, "error") /\ "message" \in DOMAIN last.value
           /\ HasStatus(last, "success")
                  => last.op # "get_server_info" /\ ClientCallReturned(last)

\* C12's case: the first execute_flux_query finds no manager, the connect it
\* causes raises, and the tool returns an error record holding the query.
C12_Witness ==
    /\ last.op = "execute_flux_query"
    /\ last.pre.influxdb_manager = NoManager
    /\ last.events = <<<<"InfluxDBClient_raised", NoHandle>>>>
    /\ last.raised = ""
    /\ last.value = [status |-> "error", message |-> "ConnectFailed", query |-> last.query]

\* the global manager was connected when the call began
ManagerConnected(c) ==
    /\ c.pre.influxdb_manager # NoManager
    /\ c.pre.client[c.pre.influxdb_manager] # NoHandle
    /\ c.pre.query_api[c.pre.influxdb_manager] # NoHandle

\* C13, as claimed: with the manager connected and the store answering,
\* list_buckets returns status "success" with the store's bucket descriptors
\* and list_measurements, called with a bucket, returns status "success" with
\* that bucket's measurement names; neither returns an error then.
C13_ListingSucceeds ==
    (last.op \in {"list_buckets", "list_measurements"} /\ ManagerConnected(last))
        => /\ last.raised = ""
           /\ HasStatus(last, "success")
           /\ last.op = "list_buckets"
                  => last.value.buckets = last.buckets /\ last.value.count = Len(last.buckets)
           /\ last.op = "list_measurements"
                  => /\ last.value.measurements = last.measurements
                     /\ last.value.count = Len(last.measurements)

\* the first get_influxdb_manager call's connect failed and nothing connected
\* the manager since: it is bound to the global, without a client
ConnectFailedEarlier(c) ==
    /\ c.pre.influxdb_manager # NoManager
    /\ c.pre.client[c.pre.influxdb_manager] = NoHandle
    /\ c.pre.query_api[c.pre.influxdb_manager] = NoHandle

\* the store is reachable during the call: a client can be created and the
\* engine answers the query
StoreReachable(c) == c.ctor = "ok" /\ c.engine.kind = "tables"

\* C14, as claimed: after the connect attempt of the first
\* get_influxdb_manager call failed, an execute_flux_query made while the store
\* is reachable attempts the connection again and returns status "success".
C14_RecoversOnQuery ==
    (last.op = "execute_flux_query" /\ ConnectFailedEarlier(last) /\ StoreReachable(last))
        => /\ "InfluxDBClient" \in Names(last.events)
           /\ HasStatus(last, "success")

====
